---- MODULE Spec2Model ----
(***************************************************************************)
(* ActivityElement (src/activity-element.js): the intent registry, the     *)
(* launch pipeline (fetch, script execution, onCreate) and the per-element *)
(* lifecycle (pending -> completed | cancelled | failed) with its cancel   *)
(* handlers, its onDestroy hook and its result promise.                    *)
(*                                                                         *)
(* JavaScript runs every callback to completion, so each action below is   *)
(* one synchronous call or one promise callback, with every call it makes  *)
(* (handlers, hooks, re-entrant finish/fail/cancel) evaluated inside it.   *)
(***************************************************************************)
EXTENDS Integers, Sequences, FiniteSets, TLC

\* ------------------------------------------------------------------ bounds
MaxInst == 1        \* elements created by intentStart under Spec
MaxLaunches == 2    \* calls of _launch that start a fetch (over all elements)
MaxHandlers == 2    \* length of _onCancelHandlers reached by later onCancel calls
MaxLog == 4         \* cancel-handler invocations recorded per element
MaxCount == 2       \* the ghost counters saturate here
MaxPair == 2        \* elements created by intentStart under SpecPair

\* ------------------------------------------------------------------ values
\* JavaScript values, each tagged with its type so that values of different
\* types can be compared.
Str(s) == [t |-> "string", v |-> s]
Err(m) == [t |-> "Error", v |-> m]
Undefined == [t |-> "undefined", v |-> ""]
None == [t |-> "none", v |-> ""]
\* a number, kept by its decimal digits
Num(d) == [t |-> "number", v |-> d]

\* !x for the values above
Falsy(x) == x.t = "undefined" \/ (x.t = "string" /\ x.v = "")
\* String(x)
String(x) == IF x.t = "undefined" THEN "undefined" ELSE x.v
\* the error passed on as it is
ToError_raw(x) == x

\* error instanceof Error ? error : new Error(String(error))
ToError(x) == IF x.t = "Error" THEN x ELSE Err(String(x))

Names == {"a", "b"}
Locators == {Str(""), Str("u1"), Str("u2")}
Params == {Str("p1")}
\* the params of a _launch call made on an element that exists
RelaunchParams == {Str("p2")}
Values == {Str("v1")}
Reasons == {Str("r1"), Undefined}
Failures == {Err("e1"), Str("s1")}

Inc(n) == IF n < MaxCount THEN n + 1 ELSE n

\* ------------------------------------------------------------------ code run by the element
\* The remote module's code is an input. Each piece of it (a cancel handler, a
\* hook, the top-level script) is one of the named bodies below: a sequence of
\* calls on the capability object `activity`, possibly ended by a throw.
OpFinish(v) == [op |-> "finish", arg |-> v]
OpFail(x) == [op |-> "fail", arg |-> x]
OpCancel(r) == [op |-> "cancel", arg |-> r]
OpCancelOnce(r) == [op |-> "cancelOnce", arg |-> r]
OpOnCancel(h) == [op |-> "onCancel", arg |-> Str(h)]
OpThrow(x) == [op |-> "throw", arg |-> x]

\* functions a module passes to activity.onCancel
Handlers == {"hLog", "hThrow", "hFinish", "hFail", "hCancel"}
\* a value that is not a function, passed to activity.onCancel
NotFn == "notFn"
\* what a module passes to activity.onCancel after its script and onCreate ran
LateHandlers == {"hLog", NotFn}

Body(name) ==
    CASE name = "hLog" -> <<>>
      [] name = "hThrow" -> <<OpThrow(Err("hboom"))>>
      [] name = "hFinish" -> <<OpFinish(Str("v1"))>>
      [] name = "hFail" -> <<OpFail(Err("e1"))>>
      \* let done = false; onCancel(() => { if (!done) { done = true; activity.cancel("again") } })
      [] name = "hCancel" -> <<OpCancelOnce(Str("again"))>>
      \* onCreate hooks
      [] name = "cNoop" -> <<>>
      [] name = "cFinish" -> <<OpFinish(Str("v1"))>>
      [] name = "cBlock" -> <<OpOnCancel("hLog")>>
      [] name = "cThrowFirst" -> <<OpOnCancel("hThrow"), OpOnCancel("hLog")>>
      [] name = "cFinishFirst" -> <<OpOnCancel("hFinish"), OpOnCancel("hLog")>>
      [] name = "cFailFirst" -> <<OpOnCancel("hFail"), OpOnCancel("hLog")>>
      [] name = "cCancelFirst" -> <<OpOnCancel("hCancel"), OpOnCancel("hLog")>>
      [] name = "cThrow" -> <<OpThrow(Err("cboom"))>>
      [] name = "cFinishThrow" -> <<OpFinish(Str("v1")), OpThrow(Err("cboom"))>>
      \* onDestroy hooks
      [] name = "dNoop" -> <<>>
      [] name = "dThrow" -> <<OpThrow(Err("dboom"))>>
      [] name = "dCancel" -> <<OpCancel(Str("late"))>>
      [] name = "dFinish" -> <<OpFinish(Str("late"))>>
      \* top-level script statements (after the exports are assigned)
      [] name = "tNone" -> <<>>
      [] name = "tThrow" -> <<OpThrow(Err("tboom"))>>
      [] name = "tFinish" -> <<OpFinish(Str("v1"))>>
      [] OTHER -> <<>>

\* The text of a remote activity: whether its script compiles, what its
\* top level does, and the hooks it writes into `exports` ("none": not defined).
Module(c, t, oc, od) == [compiles |-> c, top |-> t, onCreate |-> oc, onDestroy |-> od]
Modules ==
    { Module(FALSE, "tNone", "none", "none"),         \* syntax error
      Module(TRUE, "tNone", "none", "none"),          \* no hooks
      Module(TRUE, "tThrow", "cNoop", "dNoop"),       \* top level throws
      Module(TRUE, "tFinish", "cBlock", "dNoop"),     \* top level finishes
      Module(TRUE, "tNone", "cFinish", "dNoop"),      \* onCreate finishes
      Module(TRUE, "tNone", "cBlock", "dThrow"),      \* onCreate registers a handler
      Module(TRUE, "tNone", "cBlock", "dCancel"),     \* onDestroy calls cancel
      Module(TRUE, "tNone", "cThrowFirst", "dNoop"),  \* the first handler throws
      Module(TRUE, "tNone", "cFinishFirst", "dNoop"), \* the first handler calls finish
      Module(TRUE, "tNone", "cFailFirst", "none"),    \* the first handler calls fail
      Module(TRUE, "tNone", "cCancelFirst", "dNoop"), \* the first handler calls cancel
      Module(TRUE, "tNone", "cThrow", "dFinish"),     \* onCreate throws
      Module(TRUE, "tNone", "cFinishThrow", "none") } \* onCreate finishes, then throws

\* ------------------------------------------------------------------ the element
\* this._exports: undefined until the script has run
NoExports == [defined |-> FALSE, onCreate |-> "none", onDestroy |-> "none"]
Exports(oc, od) == [defined |-> TRUE, onCreate |-> oc, onDestroy |-> od]

\* the deferred promise `result`
PendingResult == [settled |-> "pending", status |-> "none", payload |-> None]

\* constructor(): the fields of a new element. parentNode, children and the
\* fields after `flag` are bookkeeping for the properties: they record what
\* the code did and are never read by it.
NewElement ==
    [ _state |-> "pending",
      _onCancelHandlers |-> <<>>,
      _exports |-> NoExports,
      params |-> Str(""),
      result |-> PendingResult,
      parentNode |-> FALSE,
      children |-> 0,
      flag |-> FALSE,
      first |-> [op |-> "none", arg |-> None, handlers |-> <<>>],
      stateWrites |-> 0,
      settleCalls |-> 0,
      destroyCalls |-> 0,
      createCalls |-> 0,
      teardowns |-> 0,
      runs |-> 0,
      createAt |-> "none",
      createParams |-> None,
      destroyAt |-> "none",
      exportsBy |-> 0,
      hlog |-> <<>>,
      lateCalls |-> 0 ]

\* the first of finish/fail/cancel called while the element is pending, with
\* the handlers registered at that moment
NoteCall(e, op, arg) ==
    IF e._state = "pending" /\ e.first.op = "none"
    THEN [e EXCEPT !.first = [op |-> op, arg |-> arg, handlers |-> e._onCancelHandlers]]
    ELSE e

\* resolve/reject of the promise constructor: a promise settles once, later
\* calls are ignored by the promise itself
Settle(e, how, status, payload) ==
    [e EXCEPT !.settleCalls = Inc(@),
              !.result = IF @.settled = "pending"
                         THEN [settled |-> how, status |-> status, payload |-> payload]
                         ELSE @]

_teardown(e) ==
    [e EXCEPT !.parentNode = FALSE,
              !._onCancelHandlers = <<>>,
              !.teardowns = Inc(@)]

RECURSIVE Exec(_, _)
RECURSIVE ForEach(_, _, _, _)

\* when onDestroy is invoked: before the result is settled and the element
\* torn down, or after
DestroyAt(e) ==
    IF e.result.settled = "pending" /\ e.teardowns = 0 THEN "before" ELSE "after"

\* _safeCall letting the throw of onDestroy decide the state
SafeCallOnDestroy_surfacing(e) ==
    IF e._exports.defined /\ e._exports.onDestroy # "none"
    THEN IF Exec(e, Body(e._exports.onDestroy)).threw
         THEN [e EXCEPT !.destroyCalls = Inc(@), !.destroyAt = DestroyAt(e), !._state = "failed"]
         ELSE Exec([e EXCEPT !.destroyCalls = Inc(@), !.destroyAt = DestroyAt(e)],
                   Body(e._exports.onDestroy)).e
    ELSE e

\* this._safeCall(() => this._exports?.onDestroy?.(this._activity))
SafeCallOnDestroy(e) ==
    IF e._exports.defined /\ e._exports.onDestroy # "none"
    THEN Exec([e EXCEPT !.destroyCalls = Inc(@), !.destroyAt = DestroyAt(e)],
              Body(e._exports.onDestroy)).e
    ELSE e

_resolve(e, value) ==
    IF e._state # "pending" THEN e
    ELSE LET e1 == [e EXCEPT !._state = "completed", !.stateWrites = Inc(@)]
             e2 == SafeCallOnDestroy(e1)
             e3 == Settle(e2, "resolved", "completed", value)
         IN _teardown(e3)

\* _reject without its state guard
_reject_unguarded(e, error) ==
    LET e1 == [e EXCEPT !._state = "failed", !.stateWrites = Inc(@)]
        e2 == SafeCallOnDestroy(e1)
        e3 == Settle(e2, "rejected", "failed", ToError(error))
    IN _teardown(e3)

_reject(e, error) ==
    IF e._state # "pending" THEN e
    ELSE LET e1 == [e EXCEPT !._state = "failed", !.stateWrites = Inc(@)]
             e2 == SafeCallOnDestroy(e1)
             e3 == Settle(e2, "rejected", "failed", ToError(error))
         IN _teardown(e3)

\* _cancelResolve without its call of the promise's resolve
_cancelResolve_unsettled(e, reason) ==
    IF e._state # "pending" THEN e
    ELSE LET e1 == [e EXCEPT !._state = "cancelled", !.stateWrites = Inc(@)]
             e2 == SafeCallOnDestroy(e1)
         IN _teardown(e2)

_cancelResolve(e, reason) ==
    IF e._state # "pending" THEN e
    ELSE LET e1 == [e EXCEPT !._state = "cancelled", !.stateWrites = Inc(@)]
             e2 == SafeCallOnDestroy(e1)
             e3 == Settle(e2, "resolved", "cancelled", reason)
         IN _teardown(e3)

finish(e, value) == _resolve(NoteCall(e, "finish", value), value)

fail(e, error) == _reject(NoteCall(e, "fail", error), error)

\* one invocation of a cancel handler: up to the element's teardown it is
\* recorded with what the handler could observe, after it it is counted
LogHandler(e, h, reason) ==
    IF e.teardowns > 0 THEN [e EXCEPT !.lateCalls = Inc(@)]
    ELSE IF Len(e.hlog) < MaxLog
    THEN [e EXCEPT !.hlog = Append(@, [h |-> h, reason |-> reason, state |-> e._state,
                                       settled |-> e.result.settled # "pending"])]
    ELSE e

\* this._onCancelHandlers.forEach((fn) => fn(reason)) over the array `hs` as
\* it was when forEach began (forEach fixes its range at the start, and
\* _teardown replaces the array instead of emptying it); a throw ends the loop
AfterHandler(r, hs, i, reason) ==
    IF r.threw THEN r ELSE ForEach(r.e, hs, i + 1, reason)

ForEach(e, hs, i, reason) ==
    IF i > Len(hs) THEN [e |-> e, threw |-> FALSE, err |-> None]
    ELSE AfterHandler(Exec(LogHandler(e, hs[i], reason), Body(hs[i])), hs, i, reason)

\* the body of cancel: the handlers inside try/catch, then _cancelResolve
CancelBody(e, reason) ==
    _cancelResolve(ForEach(e, e._onCancelHandlers, 1, reason).e,
                   IF Falsy(reason) THEN Str("cancelled") ELSE reason)

cancel(e, reason) == CancelBody(NoteCall(e, "cancel", reason), reason)

\* activity.onCancel(fn)
onCancel(e, fn) ==
    IF fn \in Handlers
    THEN [e EXCEPT !._onCancelHandlers = Append(@, fn)]
    ELSE e

\* Run a body on the element: the calls it makes on `activity`, in order,
\* up to a throw.
Exec(e, ops) ==
    IF ops = <<>> THEN [e |-> e, threw |-> FALSE, err |-> None]
    ELSE LET o == Head(ops)
         IN CASE o.op = "throw" -> [e |-> e, threw |-> TRUE, err |-> o.arg]
              [] o.op = "finish" -> Exec(finish(e, o.arg), Tail(ops))
              [] o.op = "fail" -> Exec(fail(e, o.arg), Tail(ops))
              [] o.op = "cancel" -> Exec(cancel(e, o.arg), Tail(ops))
              [] o.op = "cancelOnce" ->
                    IF e.flag THEN Exec(e, Tail(ops))
                    ELSE Exec(cancel([e EXCEPT !.flag = TRUE], o.arg), Tail(ops))
              [] o.op = "onCancel" -> Exec(onCancel(e, o.arg.v), Tail(ops))
              [] OTHER -> Exec(e, Tail(ops))

\* the closure's catch without its call of activity.fail
CatchInClosure_silent(r) == r.e

\* the catch inside the closure: activity.fail(error)
CatchInClosure(r) == IF r.threw THEN fail(r.e, r.err) ELSE r.e

\* _executeInClosure(scriptContent): the export table the script filled, and
\* the element after the script ran. A script that does not compile makes
\* new Function throw; the top level runs inside the closure's own try.
_executeInClosure(e, m) ==
    IF ~m.compiles
    THEN [e |-> fail([e EXCEPT !.runs = Inc(@)], Err("SyntaxError")),
          exports |-> Exports("none", "none")]
    ELSE [e |-> CatchInClosure(Exec([e EXCEPT !.runs = Inc(@)], Body(m.top))),
          exports |-> Exports(m.onCreate, m.onDestroy)]

\* this._exports = ...; the remaining nodes are appended to the element
StoreExports(x) == [x.e EXCEPT !._exports = x.exports, !.children = Inc(@)]

\* onCreate invoked a second time
CallOnCreate_twice(e, params) ==
    IF e._exports.onCreate # "none"
    THEN Exec([e EXCEPT !.createCalls = Inc(Inc(@)), !.createAt = e._state,
                        !.createParams = params],
              Body(e._exports.onCreate) \o Body(e._exports.onCreate))
    ELSE [e |-> e, threw |-> FALSE, err |-> None]

\* if (typeof this._exports.onCreate === 'function')
\*    this._exports.onCreate(this._activity, params)
CallOnCreate(e, params) ==
    IF e._exports.onCreate # "none"
    THEN Exec([e EXCEPT !.createCalls = Inc(@), !.createAt = e._state,
                        !.createParams = params],
              Body(e._exports.onCreate))
    ELSE [e |-> e, threw |-> FALSE, err |-> None]

\* The second .then callback of _launch with the fetched text and the params
\* of that _launch call: the element after it, and whether it returned the
\* handle or threw (and what).
ThenExecute(e, m, params) == CallOnCreate(StoreExports(_executeInClosure(e, m)), params)

\* ------------------------------------------------------------------ state
VARIABLES
    intentRegistry,  \* ActivityElement._intentRegistry: name -> locator, Undefined if absent
    elems,           \* the elements created so far, in creation order
    launches,        \* the _launch calls that started a fetch, in call order
    lastRegistered,  \* bookkeeping: the locator of the latest registerIntent call per name
    lastOp           \* bookkeeping: the latest static or _launch call and how it ended

vars == <<intentRegistry, elems, launches, lastRegistered, lastOp>>

\* lastOp names the latest call of registerIntent, intentStart or _launch and
\* the exception it threw to its caller; the other steps, which throw nothing
\* to their caller, reset it
Op(op, el, name, threw) == [op |-> op, el |-> el, name |-> name, threw |-> threw]
NoOp == Op("other", 0, "", "")

Init ==
    /\ intentRegistry = [n \in Names |-> Undefined]
    /\ elems = <<>>
    /\ launches = <<>>
    /\ lastRegistered = [n \in Names |-> Undefined]
    /\ lastOp = NoOp

\* a set that keeps the value of a key that is present
MapSet_keepFirst(map, key, value) ==
    IF map[key] = Undefined THEN [map EXCEPT ![key] = value] ELSE map

\* Map.prototype.set / get on the registry
MapSet(map, key, value) == [map EXCEPT ![key] = value]
MapGet(map, key) == map[key]

\* static registerIntent(intentName, remoteSrc)
RegisterIntent(n, l) ==
    /\ intentRegistry' = MapSet(intentRegistry, n, l)
    /\ lastRegistered' = [lastRegistered EXCEPT ![n] = l]
    /\ lastOp' = Op("registerIntent", 0, n, "")
    /\ UNCHANGED <<elems, launches>>

\* no text has arrived yet
NoText == [compiles |-> FALSE, top |-> "none", onCreate |-> "none", onDestroy |-> "none"]

\* the fetch a successful _launch call starts
NewLaunch(el, n, src, p) ==
    [el |-> el, name |-> n, src |-> src, params |-> p, stage |-> "fetching",
     error |-> None, promise |-> "pending", text |-> NoText]

\* intentStart without the lookup's check
IntentStart_unchecked(n, p) ==
    /\ elems' = Append(elems, [NewElement EXCEPT !.parentNode = TRUE, !.params = p])
    /\ launches' = Append(launches, NewLaunch(Len(elems) + 1, n, MapGet(intentRegistry, n), p))
    /\ lastOp' = Op("intentStart", Len(elems) + 1, n, "")
    /\ UNCHANGED <<intentRegistry, lastRegistered>>

\* static intentStart(intentName, params): a new element is created, attached
\* to the container and launched, unless the registry has no locator
IntentStart(n, p) ==
    LET remoteSrc == MapGet(intentRegistry, n)
    IN IF Falsy(remoteSrc)
       THEN /\ lastOp' = Op("intentStart", 0, n, "NotRegistered")
            /\ UNCHANGED <<intentRegistry, elems, launches, lastRegistered>>
       ELSE /\ elems' = Append(elems, [NewElement EXCEPT !.parentNode = TRUE, !.params = p])
            /\ launches' = Append(launches, NewLaunch(Len(elems) + 1, n, remoteSrc, p))
            /\ lastOp' = Op("intentStart", Len(elems) + 1, n, "")
            /\ UNCHANGED <<intentRegistry, lastRegistered>>

\* element._launch(remoteSrc, params) called on an element that exists
Launch(i, src, p) ==
    /\ i \in 1..Len(elems)
    /\ IF elems[i]._state # "pending"
       THEN /\ lastOp' = Op("launch", i, "", "AlreadyStarted")
            /\ UNCHANGED <<elems, launches>>
       ELSE /\ elems' = [elems EXCEPT ![i].params = p]
            /\ launches' = Append(launches, NewLaunch(i, "", src, p))
            /\ lastOp' = Op("launch", i, "", "")
    /\ UNCHANGED <<intentRegistry, lastRegistered>>

\* a promise of the chain rejects with `error`: the .then callbacks after it
\* are skipped and the .catch callback is queued
Rejected(k, error) ==
    /\ launches' = [launches EXCEPT ![k].stage = "rejected", ![k].error = error]
    /\ lastOp' = NoOp
    /\ UNCHANGED <<intentRegistry, elems, lastRegistered>>

\* fetch rejects (no response)
FetchReject(k) ==
    /\ k \in 1..Len(launches)
    /\ launches[k].stage = "fetching"
    /\ Rejected(k, Err("NetworkError"))

\* fetch resolves with a response that is not ok: the first .then throws
FetchNotOk(k) ==
    /\ k \in 1..Len(launches)
    /\ launches[k].stage = "fetching"
    /\ Rejected(k, Err("Fetch: 404"))

\* fetch resolves with an ok response: the first .then returns response.text()
FetchOk(k) ==
    /\ k \in 1..Len(launches)
    /\ launches[k].stage = "fetching"
    /\ launches' = [launches EXCEPT ![k].stage = "reading"]
    /\ lastOp' = NoOp
    /\ UNCHANGED <<intentRegistry, elems, lastRegistered>>

\* response.text() rejects (the body cannot be read)
TextReject(k) ==
    /\ k \in 1..Len(launches)
    /\ launches[k].stage = "reading"
    /\ Rejected(k, Err("NetworkError"))

\* the launch whose run made the export table an element gets from launch k:
\* here a table kept per locator, made by the first launch of that locator
TableOf_perLocator(k) ==
    CHOOSE j \in 1..k : launches[j].src = launches[k].src
                        /\ \A h \in 1..(j - 1) : launches[h].src # launches[k].src

\* const exportsObj = {} (and the {} of the catch) in _executeInClosure: every
\* run makes its own table, named here by the launch whose callback ran it
TableOf(k) == k

\* response.text() resolves with the text of module m: the second .then
\* runs the script, stores the exports, appends the content, calls onCreate
\* and returns the handle, unless onCreate throws. exportsBy and text record
\* which run made the element's table and which text the launch received.
TextArrives(k, m) ==
    /\ k \in 1..Len(launches)
    /\ launches[k].stage = "reading"
    /\ LET i == launches[k].el
           r == ThenExecute(elems[i], m, launches[k].params)
       IN /\ elems' = [elems EXCEPT ![i] = [r.e EXCEPT !.exportsBy = TableOf(k)]]
          /\ launches' = IF r.threw
                         THEN [launches EXCEPT ![k].stage = "rejected", ![k].error = r.err,
                                               ![k].text = m]
                         ELSE [launches EXCEPT ![k].stage = "done", ![k].promise = "handle",
                                               ![k].text = m]
          /\ lastOp' = NoOp
    /\ UNCHANGED <<intentRegistry, lastRegistered>>

\* the .catch callback without its call of this.fail
Catch_silent(k) ==
    /\ k \in 1..Len(launches)
    /\ launches[k].stage = "rejected"
    /\ launches' = [launches EXCEPT ![k].stage = "done", ![k].promise = "undefined"]
    /\ lastOp' = NoOp
    /\ UNCHANGED <<intentRegistry, elems, lastRegistered>>

\* the .catch callback of _launch: this.fail(error); the promise returned by
\* _launch resolves to what the callback returns, which is undefined
Catch(k) ==
    /\ k \in 1..Len(launches)
    /\ launches[k].stage = "rejected"
    /\ elems' = [elems EXCEPT ![launches[k].el] = fail(@, launches[k].error)]
    /\ launches' = [launches EXCEPT ![k].stage = "done", ![k].promise = "undefined"]
    /\ lastOp' = NoOp
    /\ UNCHANGED <<intentRegistry, lastRegistered>>

\* element.finish(value) / activity.finish(value), called from outside a callback
Finish(i, v) ==
    /\ i \in 1..Len(elems)
    /\ elems' = [elems EXCEPT ![i] = finish(@, v)]
    /\ lastOp' = NoOp
    /\ UNCHANGED <<intentRegistry, launches, lastRegistered>>

\* element.fail(error)
Fail(i, x) ==
    /\ i \in 1..Len(elems)
    /\ elems' = [elems EXCEPT ![i] = fail(@, x)]
    /\ lastOp' = NoOp
    /\ UNCHANGED <<intentRegistry, launches, lastRegistered>>

\* a cancel that reaches every element
Cancel_broadcast(i, r) ==
    /\ i \in 1..Len(elems)
    /\ elems' = [j \in 1..Len(elems) |-> cancel(elems[j], r)]
    /\ lastOp' = NoOp
    /\ UNCHANGED <<intentRegistry, launches, lastRegistered>>

\* element.cancel(reason), also the cancel of the launch handle
Cancel(i, r) ==
    /\ i \in 1..Len(elems)
    /\ elems' = [elems EXCEPT ![i] = cancel(@, r)]
    /\ lastOp' = NoOp
    /\ UNCHANGED <<intentRegistry, launches, lastRegistered>>

\* activity.onCancel(fn) called by the module's code after its script ran
\* (from a timer or an event listener it installed)
OnCancel(i, fn) ==
    /\ i \in 1..Len(elems)
    /\ elems[i].runs > 0
    /\ elems' = [elems EXCEPT ![i] = onCancel(@, fn)]
    /\ lastOp' = NoOp
    /\ UNCHANGED <<intentRegistry, launches, lastRegistered>>

\* The bounds of the exploration.
CanCreate == Len(elems) < MaxInst /\ Len(launches) < MaxLaunches
CanLaunch(i) == i \in 1..Len(elems) /\ (elems[i]._state = "pending" => Len(launches) < MaxLaunches)
CanRegister(i) == i \in 1..Len(elems) /\ Len(elems[i]._onCancelHandlers) < MaxHandlers

Next ==
    \/ \E n \in {"a"}, l \in {Str("u1")} : RegisterIntent(n, l)
    \/ \E n \in {"a"}, p \in Params : CanCreate /\ IntentStart(n, p)
    \/ \E i \in 1..MaxInst, p \in RelaunchParams : CanLaunch(i) /\ Launch(i, Str("u2"), p)
    \/ \E k \in 1..MaxLaunches : FetchReject(k)
    \/ \E k \in 1..MaxLaunches : FetchNotOk(k)
    \/ \E k \in 1..MaxLaunches : FetchOk(k)
    \/ \E k \in 1..MaxLaunches : TextReject(k)
    \/ \E k \in 1..MaxLaunches, m \in Modules : TextArrives(k, m)
    \/ \E k \in 1..MaxLaunches : Catch(k)
    \/ \E i \in 1..MaxInst, v \in Values : Finish(i, v)
    \/ \E i \in 1..MaxInst, x \in Failures : Fail(i, x)
    \/ \E i \in 1..MaxInst, r \in Reasons : Cancel(i, r)
    \/ \E i \in 1..MaxInst, fn \in LateHandlers : CanRegister(i) /\ OnCancel(i, fn)

Spec == Init /\ [][Next]_vars

\* The registry under every name and locator, with elements that only load.
NextRegistry ==
    \/ \E n \in Names, l \in Locators : RegisterIntent(n, l)
    \/ \E n \in Names, p \in Params : Len(launches) < MaxLaunches /\ IntentStart(n, p)
    \/ \E k \in 1..MaxLaunches : FetchNotOk(k)
    \/ \E k \in 1..MaxLaunches : Catch(k)

SpecRegistry == Init /\ [][NextRegistry]_vars

\* Two elements launched from one intent, each with one launch, their
\* pipelines and the calls on them interleaved.
NextPair ==
    \/ \E n \in {"a"}, l \in {Str("u1")} : RegisterIntent(n, l)
    \/ \E n \in {"a"}, p \in Params : Len(elems) < MaxPair /\ IntentStart(n, p)
    \/ \E k \in 1..MaxPair : FetchReject(k)
    \/ \E k \in 1..MaxPair : FetchOk(k)
    \/ \E k \in 1..MaxPair, m \in Modules : TextArrives(k, m)
    \/ \E k \in 1..MaxPair : Catch(k)
    \/ \E i \in 1..MaxPair, v \in Values : Finish(i, v)
    \/ \E i \in 1..MaxPair, x \in Failures : Fail(i, x)
    \/ \E i \in 1..MaxPair, r \in Reasons : Cancel(i, r)

SpecPair == Init /\ [][NextPair]_vars


\* ------------------------------------------------------------------ properties
Elems == 1..Len(elems)
Terminal(e) == e._state # "pending"

\* C1: an element starts pending and its state is written at most once: a
\* state that is completed, cancelled or failed is the same after every step,
\* and no step writes the state twice.
C1_StateChangesAtMostOnce ==
    [][ /\ \A i \in Elems :
              /\ Terminal(elems[i]) => elems'[i]._state = elems[i]._state
              /\ elems'[i].stateWrites <= 1
        /\ \A i \in (Len(elems) + 1)..Len(elems') : elems'[i]._state = "pending" ]_vars

\* a completed element that was cancelled afterwards (its late handler ran)
C1_Witness ==
    \E i \in Elems : elems[i]._state = "completed" /\ elems[i].lateCalls > 0

\* the settled result the first call announces
Outcome(f) ==
    CASE f.op = "finish" -> [settled |-> "resolved", status |-> "completed", payload |-> f.arg]
      [] f.op = "fail" -> [settled |-> "rejected", status |-> "failed", payload |-> ToError(f.arg)]
      [] f.op = "cancel" -> [settled |-> "resolved", status |-> "cancelled",
                             payload |-> IF f.arg = Undefined THEN Str("cancelled") ELSE f.arg]
      [] OTHER -> PendingResult

\* C2: the result carries the outcome of whichever of finish, fail, cancel was
\* called first on the pending element: completed with v iff finish(v),
\* rejected as failed with e iff fail(e), resolved as cancelled with r iff cancel(r).
C2_FirstCallDecides ==
    \A i \in Elems : elems[i].result = Outcome(elems[i].first)

\* C3: the result is unsettled exactly while the state is pending, it carries
\* the status of the state, and the promise is settled once per state write,
\* so never a second time.
C3_SettledIffTerminal ==
    \A i \in Elems :
        LET e == elems[i]
        IN /\ (e.result.settled = "pending") <=> (e._state = "pending")
           /\ Terminal(e) => e.result.status = e._state
           /\ e.settleCalls = e.stateWrites
           /\ e.settleCalls <= 1

\* a failed element whose result stayed rejected through a later cancel
C3_Witness ==
    \E i \in Elems :
        /\ elems[i].result.settled = "rejected"
        /\ elems[i].settleCalls = 1
        /\ elems[i].lateCalls > 0

\* what a call on a terminal element must leave alone
Observable(e) ==
    [state |-> e._state, result |-> e.result, handlerCalls |-> <<e.hlog, e.lateCalls>>,
     destroyCalls |-> e.destroyCalls, teardowns |-> e.teardowns]

\* C4: on an element whose terminal transition is over, a call of finish,
\* cancel or fail (by the caller or by a hook) changes neither the state nor
\* the result, invokes no cancel handler and no onDestroy, and repeats no
\* teardown. These calls are the only steps that can touch those fields.
C4_TerminalCallsAreNoOps ==
    [][ \A i \in Elems :
            Terminal(elems[i]) => Observable(elems'[i]) = Observable(elems[i]) ]_vars

\* C5: when cancel is the first call on a pending element with handlers
\* h1..hn, the handlers invoked are exactly h1..hn, once each and in that
\* order, each while the state is still pending and the result unsettled.
C5_HandlersOnceInOrderBeforeState ==
    \A i \in Elems :
        LET e == elems[i]
        IN e.first.op = "cancel" =>
              /\ Len(e.hlog) = Len(e.first.handlers)
              /\ \A j \in 1..Len(e.hlog) :
                    /\ e.hlog[j].h = e.first.handlers[j]
                    /\ e.hlog[j].state = "pending"
                    /\ ~e.hlog[j].settled

\* C6: when cancel is the first call on a pending element and one of its
\* handlers throws, every handler is still invoked and the element ends
\* cancelled with the result resolved as cancelled.
C6_HandlersFaultIsolated ==
    \A i \in Elems :
        LET e == elems[i]
            hs == e.first.handlers
        IN (e.first.op = "cancel" /\ \E j \in 1..Len(hs) : hs[j] = "hThrow") =>
              /\ \A j \in 1..Len(hs) : \E k \in 1..Len(e.hlog) : e.hlog[k].h = hs[j]
              /\ e._state = "cancelled"
              /\ e.result.settled = "resolved" /\ e.result.status = "cancelled"

\* C7: the promise returned by intentStart/_launch resolves to a launch
\* handle whatever the outcome: once the pipeline of a launch is over, its
\* promise holds the handle.
C7_LaunchResolvesToHandle ==
    \A k \in 1..Len(launches) :
        /\ launches[k].promise \in {"pending", "handle"}
        /\ launches[k].stage = "done" => launches[k].promise = "handle"

\* C8: intentStart of a name the registry does not hold throws NotRegistered
\* to its caller and changes nothing: no element, no fetch, the same registry.
C8_NotRegisteredIsSynchronous ==
    [][ \A n \in Names :
            (lastOp'.op = "intentStart" /\ lastOp'.name = n /\ intentRegistry[n] = Undefined) =>
                /\ lastOp'.threw = "NotRegistered"
                /\ UNCHANGED <<intentRegistry, elems, launches>> ]_vars

\* intentStart of the unregistered "b" has thrown while "a" is registered
C8_Witness ==
    /\ lastOp = Op("intentStart", 0, "b", "NotRegistered")
    /\ intentRegistry["b"] = Undefined
    /\ intentRegistry["a"] # Undefined

\* C9: the registry holds, for every name, the locator of the latest
\* registerIntent call for it; a registerIntent call changes the mapping of
\* its name only and throws nothing; a launch through intentStart fetches
\* from the locator registered last for its name.
C9_LastWriteWins ==
    [][ /\ intentRegistry' = lastRegistered'
        /\ lastOp'.op = "registerIntent" =>
              /\ lastOp'.threw = ""
              /\ \A n \in Names \ {lastOp'.name} : intentRegistry'[n] = intentRegistry[n]
        /\ (lastOp'.op = "intentStart" /\ Len(launches') > Len(launches)) =>
              launches'[Len(launches')].src = lastRegistered[lastOp'.name] ]_vars

\* two launches of one name fetched from different locators, the later one
\* from the locator the registry holds now
C9_Witness ==
    \E k1, k2 \in 1..Len(launches) :
        /\ k1 < k2
        /\ launches[k1].name = launches[k2].name
        /\ launches[k1].src # launches[k2].src
        /\ launches[k2].src = intentRegistry[launches[k2].name]

\* C10: _launch on an element that was launched before, or that is terminal,
\* throws AlreadyStarted and starts no fetch: no element has two fetches.
C10_NoSecondLaunch ==
    \A k1, k2 \in 1..Len(launches) :
        k1 # k2 => launches[k1].el # launches[k2].el

\* the result of an element that failed with `error`
FailedWith(error) == [settled |-> "rejected", status |-> "failed", payload |-> ToError(error)]

\* what the loader rejects with: no response, or a response that is not ok
RetrievalErrors == {Err("NetworkError"), Err("Fetch: 404")}
\* what an onCreate hook throws
HookErrors == {Err("cboom")}

\* the step is the .catch callback of launch k
CatchStep(k) == launches[k].stage = "rejected" /\ launches'[k].stage = "done"

\* C11: when the retrieval of a launch has failed and its element is still
\* pending, the .catch callback makes the element failed and rejects the result
\* with {failed, the retrieval error}; and an element that failed by a retrieval
\* error has never run a script and never had onCreate invoked, then or later.
C11_RetrievalFailureFails ==
    [][ /\ \A k \in 1..Len(launches) :
              (/\ CatchStep(k)
               /\ launches[k].error \in RetrievalErrors
               /\ elems[launches[k].el]._state = "pending") =>
                  /\ elems'[launches[k].el]._state = "failed"
                  /\ elems'[launches[k].el].result = FailedWith(launches[k].error)
        /\ \A k \in 1..Len(launches') :
              (/\ launches'[k].stage = "done"
               /\ launches'[k].error \in RetrievalErrors
               /\ elems'[launches'[k].el].result = FailedWith(launches'[k].error)) =>
                  /\ elems'[launches'[k].el].runs = 0
                  /\ elems'[launches'[k].el].createCalls = 0 ]_vars

\* the scripts that fail in the sandbox, and the error each fails with
FailsInSandbox(m) == ~m.compiles \/ m.top = "tThrow"
SandboxError(m) == IF m.compiles THEN Err("tboom") ELSE Err("SyntaxError")

\* C12: running a script that does not compile, or whose top level throws, on
\* a pending element returns to its caller with the element failed and the
\* result rejected with {failed, the error}; the export table returned for a
\* script that does not compile is empty.
C12_SandboxErrorsFail ==
    \A i \in Elems, m \in Modules :
        (elems[i]._state = "pending" /\ FailsInSandbox(m)) =>
            /\ _executeInClosure(elems[i], m).e._state = "failed"
            /\ _executeInClosure(elems[i], m).e.result = FailedWith(SandboxError(m))
            /\ _executeInClosure(elems[i], m).e.runs = Inc(elems[i].runs)
            /\ ~m.compiles => _executeInClosure(elems[i], m).exports = Exports("none", "none")

\* an element failed by a script that does not compile: its table is empty
\* and its launch resolved with the handle
C12_Witness ==
    \E k \in 1..Len(launches) :
        /\ launches[k].promise = "handle"
        /\ elems[launches[k].el].runs = 1
        /\ elems[launches[k].el].result = FailedWith(Err("SyntaxError"))
        /\ elems[launches[k].el]._exports = Exports("none", "none")

\* C13: the throw of an onCreate hook ends in the .catch callback and the
\* launch promise still resolves: a pending element becomes failed with the
\* result rejected with {failed, the error thrown}, an element the hook had
\* made terminal keeps its state and its result.
C13_OnCreateThrowIsCaught ==
    [][ \A k \in 1..Len(launches) :
            (CatchStep(k) /\ launches[k].error \in HookErrors) =>
                /\ launches'[k].promise = "undefined"
                /\ IF elems[launches[k].el]._state = "pending"
                   THEN /\ elems'[launches[k].el]._state = "failed"
                        /\ elems'[launches[k].el].result = FailedWith(launches[k].error)
                   ELSE /\ elems'[launches[k].el]._state = elems[launches[k].el]._state
                        /\ elems'[launches[k].el].result = elems[launches[k].el].result ]_vars

\* an element failed by the throw of its onCreate hook
C13_Witness ==
    \E k \in 1..Len(launches) :
        /\ launches[k].stage = "done"
        /\ launches[k].error \in HookErrors
        /\ elems[launches[k].el].createCalls = 1
        /\ elems[launches[k].el].createAt = "pending"
        /\ elems[launches[k].el].result = FailedWith(Err("cboom"))

\* C14: an element whose module defines onDestroy has had the hook invoked
\* exactly once when it is terminal, whichever terminal state it is in and
\* wherever in the pipeline the transition happened, and never while it is
\* pending; the hook runs before the result is settled and before teardown.
C14_OnDestroyExactlyOnce ==
    \A i \in Elems :
        LET e == elems[i]
        IN (e._exports.defined /\ e._exports.onDestroy # "none") =>
              /\ Terminal(e) => e.destroyCalls = 1 /\ e.destroyAt = "before"
              /\ ~Terminal(e) => e.destroyCalls = 0

\* the element with another onDestroy hook in its export table
WithOnDestroy(e, od) == [e EXCEPT !._exports.onDestroy = od]

\* two runs ended alike: state, result, detachment, handler list, teardowns
SameOutcome(a, b) ==
    /\ a._state = b._state
    /\ a.result = b.result
    /\ a.parentNode = b.parentNode
    /\ a._onCancelHandlers = b._onCancelHandlers
    /\ a.teardowns = b.teardowns

\* an element ended by a terminal transition: settled with the status of its
\* state, onDestroy invoked, detached, no handlers
Ended(a) ==
    /\ Terminal(a)
    /\ a.result.settled # "pending" /\ a.result.status = a._state
    /\ a.destroyCalls = 1
    /\ a.teardowns = 1 /\ ~a.parentNode /\ a._onCancelHandlers = <<>>

\* C15: on a pending element whose onDestroy throws, each of finish, fail and
\* cancel ends the element exactly as it does with an onDestroy that returns:
\* same terminal state, same settled result, detached, handler list cleared.
C15_OnDestroyThrowDiscarded ==
    \A i \in Elems :
        (elems[i]._state = "pending" /\ elems[i]._exports.onDestroy = "dThrow") =>
            /\ \A v \in Values :
                  /\ Ended(finish(elems[i], v))
                  /\ SameOutcome(finish(elems[i], v), finish(WithOnDestroy(elems[i], "dNoop"), v))
            /\ \A x \in Failures :
                  /\ Ended(fail(elems[i], x))
                  /\ SameOutcome(fail(elems[i], x), fail(WithOnDestroy(elems[i], "dNoop"), x))
            /\ \A r \in Reasons :
                  /\ Ended(cancel(elems[i], r))
                  /\ SameOutcome(cancel(elems[i], r), cancel(WithOnDestroy(elems[i], "dNoop"), r))

\* an element ended by cancel although its onDestroy threw
C15_Witness ==
    \E i \in Elems :
        /\ elems[i]._exports.onDestroy = "dThrow"
        /\ elems[i].first.op = "cancel"
        /\ elems[i]._state = "cancelled"
        /\ Ended(elems[i])

\* C16: a terminal element is detached from its container and its list of
\* cancel handlers is empty, in every state after its terminal transition.
C16_TerminalIsTornDown ==
    \A i \in Elems :
        Terminal(elems[i]) => ~elems[i].parentNode /\ elems[i]._onCancelHandlers = <<>>

\* s is a prefix of t
IsPrefix(s, t) == Len(s) <= Len(t) /\ SubSeq(t, 1, Len(s)) = s

\* C17: the list of cancel handlers holds functions only, grows by appending
\* and only while the element is pending (on a terminal element it stays as it
\* is), and an element that ends completed or failed has had no handler invoked.
C17_HandlersOnlyWhilePending ==
    [][ \A i \in Elems :
            /\ \A j \in 1..Len(elems'[i]._onCancelHandlers) :
                  elems'[i]._onCancelHandlers[j] \in Handlers
            /\ Terminal(elems[i]) => elems'[i]._onCancelHandlers = elems[i]._onCancelHandlers
            /\ ~Terminal(elems'[i]) =>
                  IsPrefix(elems[i]._onCancelHandlers, elems'[i]._onCancelHandlers)
            /\ elems'[i]._state \in {"completed", "failed"} =>
                  elems'[i].hlog = <<>> /\ elems'[i].lateCalls = 0 ]_vars

\* what the second .then did (r) to element e with module m and params p
LoadedAsClaimed(e, m, p, r) ==
    /\ r.e._exports = Exports(m.onCreate, m.onDestroy)
    /\ r.e.children = Inc(e.children)
    /\ IF m.onCreate = "none"
       THEN r.e.createCalls = e.createCalls /\ r.e.createParams = e.createParams /\ ~r.threw
       ELSE r.e.createCalls = Inc(e.createCalls) /\ r.e.createParams = p
    /\ (m.onCreate = "none" /\ m.top = "tNone" /\ e._state = "pending") =>
          r.e._state = "pending" /\ r.e.result = PendingResult
    /\ (m.onCreate = "cFinish" /\ m.top = "tNone" /\ e._state = "pending") =>
          /\ r.e._state = "completed"
          /\ r.e.result = [settled |-> "resolved", status |-> "completed", payload |-> Str("v1")]
          /\ ~r.threw

\* C18: the second .then, given a script that compiles, stores the script's
\* export table, attaches the content and invokes onCreate once, with the
\* params of the launch, if the table has one and not at all otherwise; with no
\* onCreate a pending element stays pending; when onCreate calls finish(v) on a
\* pending element the result resolves {completed, v}, the state is completed
\* and the callback returns the handle.
C18_OnCreateOnceAfterLoad ==
    \A i \in Elems, m \in Modules, p \in Params \cup RelaunchParams :
        m.compiles => LoadedAsClaimed(elems[i], m, p, ThenExecute(elems[i], m, p))

\* an element completed by the finish of its onCreate, invoked once with the
\* params of intentStart, its launch resolved with the handle
C18_Witness ==
    \E k \in 1..Len(launches) :
        /\ launches[k].promise = "handle"
        /\ elems[launches[k].el]._exports.onCreate = "cFinish"
        /\ elems[launches[k].el].createCalls = 1
        /\ elems[launches[k].el].createAt = "pending"
        /\ elems[launches[k].el].createParams = launches[k].params
        /\ elems[launches[k].el].children = 1
        /\ elems[launches[k].el]._state = "completed"
        /\ elems[launches[k].el].result.payload = Str("v1")

\* C19: the script of an element runs at most once and its export table is
\* assigned at most once: a table that is assigned is never replaced.
C19_ExportsAssignedOnce ==
    [][ \A i \in Elems :
            /\ elems'[i].runs <= 1
            /\ elems'[i].children <= 1
            /\ elems[i]._exports.defined => elems'[i]._exports = elems[i]._exports ]_vars

\* C20: intentStart(n) throws NotRegistered exactly when n was never
\* registered; after registerIntent(n, l), for every string l, it creates an
\* element and starts the fetch of l.
C20_NoLocatorValidation ==
    [][ \A n \in Names :
            (lastOp'.op = "intentStart" /\ lastOp'.name = n) =>
                /\ (lastOp'.threw = "NotRegistered") <=> (lastRegistered[n] = Undefined)
                /\ lastRegistered[n] # Undefined =>
                      /\ Len(launches') = Len(launches) + 1
                      /\ launches'[Len(launches')].src = lastRegistered[n] ]_vars

\* what fail can be given: an Error, a string, a number, undefined
FailInputs == Failures \cup {Num("7"), Undefined}

\* the message the claim gives the error made of a value that is no Error
StringForm(x) ==
    CASE x = Str("s1") -> "s1"
      [] x = Num("7") -> "7"
      [] x = Undefined -> "undefined"
      [] OTHER -> "?"

\* the result claimed for fail(x): rejected, failed, with x itself if x is an
\* Error and else with an Error whose message is the string form of x
RejectedAsClaimed(result, x) ==
    /\ result.settled = "rejected" /\ result.status = "failed"
    /\ result.payload.t = "Error"
    /\ x.t = "Error" => result.payload = x
    /\ x.t # "Error" => result.payload.v = StringForm(x)

\* C21: fail(x) on a pending element rejects the result with {failed, error},
\* error being x itself when x is an Error and a new Error with the string
\* form of x as its message otherwise: for the element failed by a first call
\* fail(x), and for fail(x) on every pending element and x an Error, a
\* string, a number or undefined.
C21_FailNormalisesError ==
    \A i \in Elems :
        /\ elems[i].first.op = "fail" =>
              elems[i]._state = "failed" /\ RejectedAsClaimed(elems[i].result, elems[i].first.arg)
        /\ elems[i]._state = "pending" =>
              \A x \in FailInputs : RejectedAsClaimed(fail(elems[i], x).result, x)

\* an element failed by fail('s1'): its error is an Error with message s1
C21_Witness ==
    \E i \in Elems :
        /\ elems[i].first = [op |-> "fail", arg |-> Str("s1"), handlers |-> <<"hLog">>]
        /\ elems[i].result.payload = Err("s1")

\* C23: onCreate is invoked only on an element that is pending at that
\* moment, never on one that became terminal before.
C23_OnCreateOnlyWhilePending ==
    \A i \in Elems : elems[i].createAt \in {"none", "pending"}

\* C24: on an element that is terminal no step runs a script, assigns the
\* export table or attaches content: a text that arrives after the element
\* became terminal is dropped.
C24_NoLoadAfterTerminal ==
    [][ \A i \in Elems :
            Terminal(elems[i]) =>
                /\ elems'[i].runs = elems[i].runs
                /\ elems'[i]._exports = elems[i]._exports
                /\ elems'[i].children = elems[i].children ]_vars

\* C26: when cancel(r) is the first call on a pending element, ends it
\* cancelled and is the only call that invoked handlers, the reason the
\* handlers were given equals the reason of the settled result.
C26_HandlersSeeResultReason ==
    \A i \in Elems :
        LET e == elems[i]
        IN (/\ e.first.op = "cancel"
            /\ e._state = "cancelled"
            /\ \A j \in 1..Len(e.hlog) : e.hlog[j].reason = e.first.arg) =>
               \A j \in 1..Len(e.hlog) : e.hlog[j].reason = e.result.payload

\* C22: the export table of an element was made by a run of that element's
\* own pipeline and is the table of no other element; it holds exactly the
\* hooks the script of that run wrote; and a step that invokes a hook of one
\* element changes nothing of another.
C22_FreshExportTable ==
    [][ /\ \A i \in 1..Len(elems') :
              elems'[i].exportsBy # 0 =>
                  /\ launches'[elems'[i].exportsBy].el = i
                  /\ elems'[i]._exports =
                        IF launches'[elems'[i].exportsBy].text.compiles
                        THEN Exports(launches'[elems'[i].exportsBy].text.onCreate,
                                     launches'[elems'[i].exportsBy].text.onDestroy)
                        ELSE Exports("none", "none")
                  /\ \A j \in 1..Len(elems') :
                        j # i => elems'[j].exportsBy # elems'[i].exportsBy
        /\ \A i, j \in Elems :
              (/\ i # j
               /\ \/ elems'[i].createCalls # elems[i].createCalls
                  \/ elems'[i].destroyCalls # elems[i].destroyCalls) =>
                  elems'[j] = elems[j] ]_vars

\* two elements launched from one locator, each with the table of its own
\* run, holding different hooks
C22_Witness ==
    /\ Len(elems) = 2
    /\ launches[1].src = launches[2].src
    /\ elems[1].exportsBy = 1 /\ elems[2].exportsBy = 2
    /\ elems[1]._exports.onCreate = "cFinish"
    /\ elems[2]._exports.onCreate = "cBlock"
    /\ elems[1].createCalls = 1 /\ elems[2].createCalls = 1

\* C25: a step changes at most one element, and a step of a launch's pipeline
\* changes at most the element of that launch: state, handler list, export
\* table, result and the record of invoked handlers and hooks of every other
\* element stay as they are.
C25_InstancesIndependent ==
    [][ /\ \A i, j \in Elems :
              (i # j /\ elems'[i] # elems[i]) => elems'[j] = elems[j]
        /\ \A k \in 1..Len(launches), j \in Elems :
              (launches'[k] # launches[k] /\ j # launches[k].el) => elems'[j] = elems[j] ]_vars

\* one element cancelled, with its handler invoked, while the other, loaded
\* with the same module, is still pending with its handler registered
C25_Witness ==
    /\ Len(elems) = 2
    /\ elems[1]._state = "cancelled" /\ Len(elems[1].hlog) = 1
    /\ elems[2]._state = "pending" /\ elems[2]._onCancelHandlers = <<"hLog">>
    /\ elems[1]._exports = elems[2]._exports
    /\ elems[2].hlog = <<>> /\ elems[2].destroyCalls = 0

====
